---------------------------- MODULE Spec2Model ----------------------------
(***************************************************************************)
(* A model of the dag-ucan library: the dual-representation codec (parse,  *)
(* format, encode, decode, write, link), issuance and signature            *)
(* verification, and the time checks.                                      *)
(*                                                                         *)
(* Strings are sequences of one-character tokens, so that slicing, prefix  *)
(* tests and lower-casing are computed as the code computes them.  A JWT    *)
(* string is the sequence of its dot-separated segments.  JavaScript       *)
(* values are tagged records, objects are functions from keys to values.   *)
(***************************************************************************)
EXTENDS Integers, Sequences, FiniteSets, TLC

VARIABLES
  clock,    \* Date.now() / 1000, floored
  ucan,     \* the view the caller holds (NoView before the first one)
  origin,   \* the call that returned the view the caller holds, and its input
  last,     \* the last completed call, its input and its outcome
  pending   \* the calls that wait for a signer, a verifier or a hasher

vars == <<clock, ucan, origin, last, pending>>

----------------------------------------------------------------------------
(* Bounds of the model *)

MaxClock == 2

----------------------------------------------------------------------------
(* JavaScript values *)

Undef == [t |-> "undefined"]
Null == [t |-> "null"]
Inf == [t |-> "Infinity"]
Num(n) == [t |-> "number", v |-> n]
\* a number that is not an integer (n + 1/2)
Frac(n) == [t |-> "fraction", v |-> n]
Str(s) == [t |-> "string", v |-> s]
Arr(a) == [t |-> "array", v |-> a]
Obj(o) == [t |-> "object", v |-> o]
Bytes(b) == [t |-> "bytes", v |-> b]
LinkV(c) == [t |-> "link", v |-> c]

Get(o, k) == IF k \in DOMAIN o THEN o[k] ELSE Undef

Ok(v) == [ok |-> TRUE, val |-> v]
Throw(name, context) == [ok |-> FALSE, err |-> [name |-> name, context |-> context]]

\* the value of a result that did not throw, wrapped
OkBytes(result) == IF result.ok THEN Ok(Bytes(result.val)) ELSE result
OkArr(result) == IF result.ok THEN Ok(Arr(result.val)) ELSE result

StartsWith(s, p) == Len(s) >= Len(p) /\ SubSeq(s, 1, Len(p)) = p
EndsWith(s, p) == Len(s) >= Len(p) /\ SubSeq(s, Len(s) - Len(p) + 1, Len(s)) = p
Includes(s, c) == \E i \in 1..Len(s) : s[i] = c

\* The results of a sequence of evaluations, in evaluation order: the first
\* throw wins, otherwise the sequence of values.
RECURSIVE FirstThrow(_)
FirstThrow(rs) ==
  IF rs = <<>> THEN Ok(<<>>)
  ELSE IF ~Head(rs).ok THEN Head(rs)
  ELSE LET rest == FirstThrow(Tail(rs))
       IN IF rest.ok THEN Ok(<<Head(rs).val>> \o rest.val) ELSE rest

----------------------------------------------------------------------------
(* Uint8Array, varint, utf8.js *)

\* A Uint8Array is a window on a buffer of bytes.  A byte is an octet of a
\* known value, [b |-> n], the UTF-8 of a character of a text, [c |-> ch],
\* or a byte order mark; the buffers external codecs produce are one item
\* long, the value or signature they encode.
Octet(n) == [b |-> n]
Uint8Array(bytes) == [buffer |-> bytes, byteOffset |-> 0, byteLength |-> Len(bytes)]

\* the bytes inside the window
Content(view) ==
  SubSeq(view.buffer, view.byteOffset + 1, view.byteOffset + view.byteLength)

\* new Uint8Array(buffer, byteOffset): the window runs to the end of the buffer
RestOf(buffer, byteOffset) ==
  IF byteOffset > Len(buffer) THEN Throw("RangeError", <<"offset">>)
  ELSE Ok([buffer |-> buffer, byteOffset |-> byteOffset,
           byteLength |-> Len(buffer) - byteOffset])

\* new Uint8Array(buffer, byteOffset, length)
Window(buffer, byteOffset, length) ==
  IF byteOffset + length > Len(buffer) THEN Throw("RangeError", <<"length">>)
  ELSE Ok([buffer |-> buffer, byteOffset |-> byteOffset, byteLength |-> length])

\* the value of a byte; the bytes of a text are below 128 and no code of
\* a key or signature algorithm
ByteValue(byte) == IF "b" \in DOMAIN byte THEN byte.b ELSE 0

\* varint.encodeTo: seven bits a byte, low bits first, the high bit set on
\* every byte but the last
RECURSIVE varint_encode(_)
varint_encode(n) ==
  IF n < 128 THEN << Octet(n) >>
  ELSE << Octet(128 + (n % 128)) >> \o varint_encode(n \div 128)

encodingLength(n) == Len(varint_encode(n))

\* the number that starts at bytes[i]
RECURSIVE varint_from(_, _)
varint_from(bytes, i) ==
  IF i > Len(bytes) THEN Throw("RangeError", <<"varint">>)
  ELSE IF ByteValue(bytes[i]) < 128 THEN Ok(ByteValue(bytes[i]))
  ELSE LET rest == varint_from(bytes, i + 1)
       IN IF rest.ok THEN Ok(ByteValue(bytes[i]) - 128 + 128 * rest.val)
          ELSE rest

\* varint.decode(view)[0]
varint_decode(view) == varint_from(Content(view), 1)

\* utf8.js, on a JSON Web Token: its characters are ASCII, one byte each,
\* and the items of the text are its segments
UTF8_encode(text) == Uint8Array([i \in 1..Len(text) |-> [c |-> text[i]]])

\* TextDecoder drops a leading byte order mark and never throws: a byte
\* that is no text decodes to the replacement character
BOM == [bom |-> TRUE]
Replacement == "?"
Unmarked(bytes) == IF bytes # <<>> /\ bytes[1] = BOM THEN Tail(bytes) ELSE bytes
Decoded(bytes) ==
  [i \in 1..Len(bytes) |->
     IF "c" \in DOMAIN bytes[i] THEN bytes[i].c ELSE Replacement]
UTF8_decode(view) == Decoded(Unmarked(Content(view)))

\* utf8.js, on a text of characters (a DID, the name of an algorithm):
\* TextEncoder writes U+FEFF as the three bytes of the byte order mark and
\* a surrogate that has no pair as the replacement character
ZWNBSP == "uFEFF"
LoneSurrogate == "uD800"
encoder_encode(text) ==
  Uint8Array([i \in 1..Len(text) |->
                IF text[i] = ZWNBSP THEN BOM
                ELSE IF text[i] = LoneSurrogate THEN [c |-> Replacement]
                ELSE [c |-> text[i]]])

\* TextDecoder keeps a byte order mark that is not the first as U+FEFF
Character(byte) ==
  IF "c" \in DOMAIN byte THEN byte.c
  ELSE IF byte = BOM THEN ZWNBSP
  ELSE Replacement
decoder_decode(view) ==
  [i \in 1..Len(Unmarked(Content(view))) |-> Character(Unmarked(Content(view))[i])]

----------------------------------------------------------------------------
(* did.js: principals *)

ED25519 == 237
RSA == 4613
P256 == 4608
P384 == 4609
P521 == 4610
SECP256K1 == 231
DID_BLS12381G1 == 234
DID_BLS12381G2 == 235
DID_CORE == 3357
METHOD_OFFSET == encodingLength(DID_CORE)

DID_PREFIX == <<"d", "i", "d", ":">>
DID_KEY_PREFIX == <<"d", "i", "d", ":", "k", "e", "y", ":">>

\* The bytes of a principal are the varint of its multicodec and, after
\* it, the key or the UTF-8 of what follows "did:".
KeyCodes ==
  {P256, ED25519, RSA, P384, P521, DID_BLS12381G1, DID_BLS12381G2, SECP256K1}

KeyBytes(code, key) == varint_encode(code) \o key

\* base58btc: the multibase strings and the bytes they stand for, one to one
Base58Table ==
  { [text |-> <<"z", "A">>, bytes |-> KeyBytes(ED25519, << Octet(1) >>)],
    [text |-> <<"z", "B">>, bytes |-> KeyBytes(ED25519, << Octet(2) >>)],
    [text |-> <<"z", "R">>, bytes |-> KeyBytes(RSA, << Octet(3), Octet(4) >>)],
    [text |-> <<"z", "S">>, bytes |-> KeyBytes(SECP256K1, << Octet(5) >>)],
    [text |-> <<"z", "G">>, bytes |-> KeyBytes(DID_BLS12381G1, << Octet(6) >>)],
    [text |-> <<"z", "H">>, bytes |-> KeyBytes(DID_BLS12381G2, << Octet(7) >>)],
    [text |-> <<"z", "3">>, bytes |-> KeyBytes(P384, << Octet(8) >>)],
    [text |-> <<"z", "5">>, bytes |-> KeyBytes(P521, << Octet(9) >>)],
    [text |-> <<"z", "Q">>, bytes |-> KeyBytes(P256, [i \in 1..33 |-> Octet(1)])],
    [text |-> <<"z", "P">>, bytes |-> KeyBytes(P256, [i \in 1..34 |-> Octet(1)])],
    [text |-> <<"z", "U">>, bytes |-> KeyBytes(153, << Octet(1) >>)],
    [text |-> <<"z", "V">>, bytes |-> << Octet(237) >>],
    [text |-> <<"z", "C">>,
     bytes |-> KeyBytes(DID_CORE, << [c |-> "w"], [c |-> ":"], [c |-> "x"] >>)] }

base58btc_decode(text) ==
  IF \E e \in Base58Table : e.text = text
  THEN Ok(Uint8Array((CHOOSE e \in Base58Table : e.text = text).bytes))
  ELSE Throw("Error", <<"base58btc">>)

base58btc_encode(view) ==
  (CHOOSE e \in Base58Table : e.bytes = Content(view)).text

\* the view returned is a window on the bytes given: a DIDKey for the
\* codes of keys, a DID for DID_CORE
DID_decode(bytes) ==
  LET code == varint_decode(bytes)
  IN IF ~code.ok THEN code
     ELSE IF code.val = P256 /\ bytes.byteLength > 35
     THEN Throw("RangeError", <<"p256">>)
     ELSE IF code.val \in KeyCodes \cup {DID_CORE} THEN Ok(bytes)
     ELSE Throw("RangeError", <<"multicode">>)

DID_parse(did) ==
  IF ~StartsWith(did, DID_PREFIX) THEN Throw("RangeError", <<"did">>)
  ELSE IF StartsWith(did, DID_KEY_PREFIX)
  THEN LET key == base58btc_decode(SubSeq(did, Len(DID_KEY_PREFIX) + 1, Len(did)))
       IN IF key.ok THEN DID_decode(key.val) ELSE key
  ELSE Ok(Uint8Array(
            varint_encode(DID_CORE)
            \o Content(encoder_encode(SubSeq(did, Len(DID_PREFIX) + 1, Len(did))))))

\* DID.did(): "did:" and the text of the buffer from METHOD_OFFSET on
DID_did(id) ==
  DID_PREFIX \o decoder_decode(RestOf(id.buffer, id.byteOffset + METHOD_OFFSET).val)

\* DIDKey.did()
DIDKey_did(id) == DID_KEY_PREFIX \o base58btc_encode(id)

\* format(id) is id.did(), of the class decode or parse gave the principal
DID_format(id) ==
  IF varint_decode(id).val = DID_CORE THEN DID_did(id) ELSE DIDKey_did(id)

----------------------------------------------------------------------------
(* signature.js: the signature envelope <code><size><raw>[name] *)

NON_STANDARD == 53248
ES256K == 53479
BLS12381G1 == 53482
BLS12381G2 == 53483
EdDSA == 53485
ES256 == 13636096
ES384 == 13636097
ES512 == 13636098
RS256 == 13636101
EIP191 == 53649

\* the cases of the switches of codeName and nameCode
Algorithms ==
  { [code |-> ES256K, name |-> <<"E", "S", "2", "5", "6", "K">>],
    [code |-> BLS12381G1, name |-> <<"B", "L", "S", "1", "2", "3", "8", "1", "G", "1">>],
    [code |-> BLS12381G2, name |-> <<"B", "L", "S", "1", "2", "3", "8", "1", "G", "2">>],
    [code |-> EdDSA, name |-> <<"E", "d", "D", "S", "A">>],
    [code |-> ES256, name |-> <<"E", "S", "2", "5", "6">>],
    [code |-> ES384, name |-> <<"E", "S", "3", "8", "4">>],
    [code |-> ES512, name |-> <<"E", "S", "5", "1", "2">>],
    [code |-> RS256, name |-> <<"R", "S", "2", "5", "6">>],
    [code |-> EIP191, name |-> <<"E", "I", "P", "1", "9", "1">>] }

codeName(code) ==
  IF \E a \in Algorithms : a.code = code
  THEN Ok((CHOOSE a \in Algorithms : a.code = code).name)
  ELSE Throw("RangeError", <<"code">>)

nameCode(name) ==
  IF \E a \in Algorithms : a.name = name
  THEN (CHOOSE a \in Algorithms : a.name = name).code
  ELSE NON_STANDARD

\* view(bytes): a Signature on the window of the bytes given
Signature_view(bytes) ==
  [buffer |-> bytes.buffer, byteOffset |-> bytes.byteOffset,
   byteLength |-> bytes.byteLength]

\* the `code` accessor
Signature_code(signature) == varint_decode(signature)

\* the `size` accessor: the varint after the code, read from the buffer
size(signature) ==
  LET code == Signature_code(signature)
      rest == RestOf(signature.buffer,
                     signature.byteOffset + encodingLength(code.val))
  IN IF ~code.ok THEN code
     ELSE IF ~rest.ok THEN rest
     ELSE varint_decode(rest.val)

\* the `raw` accessor: `size` bytes of the buffer, after the code and the size
raw(signature) ==
  LET n == size(signature)
  IN IF ~n.ok THEN n
     ELSE Window(signature.buffer,
                 signature.byteOffset
                   + encodingLength(Signature_code(signature).val)
                   + encodingLength(n.val),
                 n.val)

\* the text of the buffer after the raw signature
nameOf(signature, code, rawLength) ==
  decoder_decode(RestOf(signature.buffer,
                     signature.byteOffset + rawLength + encodingLength(code)
                       + encodingLength(rawLength)).val)

\* the `algorithm` accessor, which reads `code` and `raw` first
algorithm(signature) ==
  LET code == Signature_code(signature)
      bytes == raw(signature)
  IN IF ~code.ok THEN code
     ELSE IF ~bytes.ok THEN bytes
     ELSE IF code.val = NON_STANDARD
     THEN Ok(nameOf(signature, code.val, bytes.val.byteLength))
     ELSE codeName(code.val)

\* create without the check of the code
Signature_create_unchecked(code, bytes) ==
  Ok(Uint8Array(varint_encode(code) \o varint_encode(bytes.byteLength)
                \o Content(bytes)))

Signature_create(code, bytes) ==
  IF codeName(code).ok
  THEN Ok(Uint8Array(varint_encode(code) \o varint_encode(bytes.byteLength)
                     \o Content(bytes)))
  ELSE codeName(code)

createNonStandard(name, bytes) ==
  Uint8Array(varint_encode(NON_STANDARD) \o varint_encode(bytes.byteLength)
             \o Content(bytes) \o Content(encoder_encode(name)))

createNamed(name, bytes) ==
  IF nameCode(name) = NON_STANDARD THEN createNonStandard(name, bytes)
  ELSE Signature_create(nameCode(name), bytes).val

\* decode that leaves the accessors of the view unread
Signature_decode_lazy(bytes) ==
  IF bytes.t # "bytes" THEN Throw("TypeError", <<"s">>)
  ELSE Ok(Signature_view(bytes.v))

\* decode reads code, algorithm and raw of the view it returns
Signature_decode(bytes) ==
  IF bytes.t # "bytes" THEN Throw("TypeError", <<"s">>)
  ELSE IF algorithm(Signature_view(bytes.v)).ok THEN Ok(Signature_view(bytes.v))
  ELSE algorithm(Signature_view(bytes.v))

Signature_encode(signature) == OkBytes(Signature_decode(Bytes(signature)))

----------------------------------------------------------------------------
(* multiformats: links (CIDs), hashers *)

RAW_CODE == 85
CBOR_CODE == 113

\* hasher.digest(bytes): sha256 is a fixed function of the bytes, identity
\* embeds them
sha256 == "sha256"
identity == "identity"
Hashers == {sha256, identity}
digest(hasher, bytes) == [code |-> hasher, digest |-> bytes]

Link_create(code, multihash) == [version |-> 1, code |-> code, multihash |-> multihash]

\* The text of a link is its multibase prefix and the link it encodes:
\* "b" (base32) is what toString emits for a CIDv1, "z" (base58btc) parses too.
Link_toString(cid) == <<"b", cid>>
Link_parse(source) ==
  IF Len(source) = 2 /\ source[1] \in {"b", "z"} THEN Ok(source[2])
  ELSE Throw("Error", <<"cid">>)

----------------------------------------------------------------------------
(* schema.js *)

IdxStr(n) == <<"0", "1", "2", "3">>[n + 1]
At(context, n) == context \o <<"[", IdxStr(n - 1), "]">>

\* the own string-keyed fields of a value (none unless it is a plain object)
Fields(x) == IF x.t = "object" THEN x.v ELSE <<>>

\* an object of the values read, in the order of the keys
Keyed(keys, rs) ==
  IF rs.ok
  THEN Ok([k \in {keys[i] : i \in 1..Len(keys)} |->
            rs.val[CHOOSE i \in 1..Len(keys) : keys[i] = k]])
  ELSE rs

readInt(input, name) ==
  IF input.t = "number" THEN Ok(input) ELSE Throw("ParseError", name)

readString(source, context) ==
  IF source.t = "string" THEN Ok(source) ELSE Throw("ParseError", context)

toLocaleLowerCase(s) ==
  [i \in 1..Len(s) |-> IF s[i] = "S" THEN "s" ELSE IF s[i] = "P" THEN "p" ELSE s[i]]

readAbility(input) ==
  IF input.t # "string" THEN Throw("ParseError", <<"can">>)
  ELSE IF Includes(SubSeq(input.v, 2, Len(input.v) - 1), "/")
  THEN Ok(Str(toLocaleLowerCase(input.v)))
  ELSE IF input.v = <<"*">> THEN Ok(input)
  ELSE Throw("ParseError", <<"can">>)

\* new URL(input) succeeds when a scheme (a letter, then scheme characters)
\* is followed by ":"
SchemeChars == {"a", "d", "i", "k", "m", "s", "y"}
parseURL(input) ==
  \E i \in 2..Len(input) :
    /\ input[i] = ":"
    /\ \A j \in 1..(i - 1) : input[j] \in SchemeChars

readResource(input) ==
  IF input.t # "string" THEN Throw("ParseError", <<"with">>)
  ELSE IF parseURL(input.v) THEN Ok(input)
  ELSE Throw("ParseError", <<"with">>)

\* { ...input, can: readAbility(input.can), with: readResource(input.with) }
asCapability(input) ==
  LET can == readAbility(Get(Fields(input), "can"))
      with == readResource(Get(Fields(input), "with"))
  IN IF ~can.ok THEN can
     ELSE IF ~with.ok THEN with
     ELSE Ok(Obj([can |-> can.val, with |-> with.val] @@ Fields(input)))

\* readStruct: anything whose typeof is "object", null excepted
IsStruct(input) == input.t \in {"object", "array", "bytes", "link"}

readCapability(input, context) ==
  IF IsStruct(input) THEN asCapability(input) ELSE Throw("ParseError", context)

readFact(input, context) ==
  IF IsStruct(input) THEN Ok(input) ELSE Throw("ParseError", context)

readProof(source, context) ==
  IF source.t = "link" THEN Ok(source) ELSE Throw("ParseError", context)

\* a parseProof that hashes the string it cannot read as a link
parseProof_hashed(source) ==
  IF Link_parse(source).ok THEN Link_parse(source).val
  ELSE Link_create(RAW_CODE, digest(sha256, UTF8_encode(source)))

parseProof(source) ==
  IF Link_parse(source).ok THEN Link_parse(source).val
  ELSE Link_create(RAW_CODE, digest(identity, UTF8_encode(source)))

readStringProof(source, context) ==
  IF source.t = "string" THEN Ok(LinkV(parseProof(source.v)))
  ELSE Throw("ParseError", context)

\* readArray(input, read, context): `elements` are the results of read on
\* the elements of the input, in order
readArray(input, elements, context) ==
  IF input.t = "array" THEN OkArr(FirstThrow(elements))
  ELSE Throw("ParseError", context)

readCapabilities(input, context) ==
  readArray(input,
            [n \in 1..Len(input.v) |-> readCapability(input.v[n], At(context, n))],
            context)

\* readOptionalArray(input, reader, context) || []
readOptionalArray(input, elements, context) ==
  IF input = Undef THEN Ok(Arr(<<>>)) ELSE readArray(input, elements, context)

readFacts(input, context) ==
  readOptionalArray(input,
                    [n \in 1..Len(input.v) |-> readFact(input.v[n], At(context, n))],
                    context)

\* the proofs, each read with readStringProof (JWT) or readProof (CBOR)
readProofs(input, jwt, context) ==
  readOptionalArray(input,
                    [n \in 1..Len(input.v) |->
                       IF jwt THEN readStringProof(input.v[n], At(context, n))
                       ELSE readProof(input.v[n], At(context, n))],
                    context)

readPrincipal(input, context) ==
  IF input.t = "bytes" THEN OkBytes(DID_decode(input.v))
  ELSE Throw("ParseError", context)

readStringPrincipal(source, context) ==
  IF source.t = "string" THEN OkBytes(DID_parse(source.v))
  ELSE Throw("ParseError", context)

\* readOptional(source, read, context): `result` is read(source, context)
readOptional(source, result) == IF source # Undef THEN result ELSE Ok(Undef)

readNullable(source, result) == IF source = Null THEN Ok(Null) ELSE result

\* readNullable(data.exp === Infinity ? null : data.exp, readInt, context)
readExpiry(exp, context) ==
  IF exp = Inf THEN Ok(Null) ELSE readNullable(exp, readInt(exp, context))

\* /\d+\.\d+\.\d+/.test(input): the pattern may match anywhere in the input
Digits == {"0", "1", "9"}
VersionMatchAt(s, i, j) ==
  /\ s[i] \in Digits /\ s[i + 1] = "."
  /\ j > i + 2 /\ \A k \in (i + 2)..(j - 1) : s[k] \in Digits
  /\ s[j] = "." /\ j + 1 <= Len(s) /\ s[j + 1] \in Digits

readVersion(input, context) ==
  IF /\ input.t = "string"
     /\ \E i \in 1..Len(input.v), j \in 1..Len(input.v) :
          i + 1 <= Len(input.v) /\ VersionMatchAt(input.v, i, j)
  THEN Ok(input)
  ELSE Throw("ParseError", context)

readLiteral(input, literal, context) ==
  IF input = literal THEN Ok(literal) ELSE Throw("ParseError", context)

readSignature(source) == OkBytes(Signature_decode(source))

PayloadKeys == <<"iss", "aud", "att", "prf", "exp", "nbf", "fct", "nnc">>

\* jwt: with readStringPrincipal and readStringProof (readJWTPayload), or
\* with readPrincipal and readProof (readPayload)
readPayloadWith(data, jwt) ==
  Keyed(PayloadKeys, FirstThrow(<<
    IF jwt THEN readStringPrincipal(Get(data, "iss"), <<"iss">>)
    ELSE readPrincipal(Get(data, "iss"), <<"iss">>),
    IF jwt THEN readStringPrincipal(Get(data, "aud"), <<"aud">>)
    ELSE readPrincipal(Get(data, "aud"), <<"aud">>),
    readCapabilities(Get(data, "att"), <<"att">>),
    readProofs(Get(data, "prf"), jwt, <<"prf">>),
    readExpiry(Get(data, "exp"), <<"exp">>),
    readOptional(Get(data, "nbf"), readInt(Get(data, "nbf"), <<"nbf">>)),
    readFacts(Get(data, "fct"), <<"fct">>),
    readOptional(Get(data, "nnc"), readString(Get(data, "nnc"), <<"nnc">>)) >>))

readPayload(data) == readPayloadWith(data, FALSE)

readJWTPayload(data) == readPayloadWith(data, TRUE)

----------------------------------------------------------------------------
(* base64url and DAG-JSON *)

\* A base64url segment is the bytes it stands for and the "=" characters
\* that trail it; baseEncode emits no padding, baseDecode ignores it and
\* rejects characters outside the alphabet.
base64url_baseEncode(data) == [data |-> Content(data), pad |-> 0]
NoBase64 == << [invalid |-> TRUE] >>
base64url_baseDecode(segment) ==
  IF segment.data = NoBase64 THEN Throw("Error", <<"base64url">>)
  ELSE Ok(Uint8Array(segment.data))

\* A JSON text is the value it denotes and whether it is laid out as the
\* encoder lays it out (no white space, the encoder's key order).
\* The encoder of DAG-JSON writes the keys of a map sorted, whatever the order
\* the object handed to it was built in: `keys` is the order of the keys of
\* the value in the text.
Sorted == <<"alg", "att", "aud", "exp", "fct", "iss", "kid", "nbf", "nnc", "prf", "typ", "ucv">>

RECURSIVE Listed(_, _)
Listed(order, present) ==
  IF order = <<>> THEN <<>>
  ELSE (IF Head(order) \in present THEN << Head(order) >> ELSE <<>>)
       \o Listed(Tail(order), present)

json_encode(value) ==
  Uint8Array(<< [json |-> value,
                 keys |-> Listed(Sorted, DOMAIN Fields(value)),
                 canon |-> TRUE] >>)
json_decode(data) ==
  IF data.byteLength = 1 /\ "json" \in DOMAIN Content(data)[1]
  THEN Ok(Content(data)[1].json)
  ELSE Throw("SyntaxError", <<"json">>)

\* json.decode(base64url.baseDecode(source)), as the fields of an object
decodeFields(source, context) ==
  LET bytes == base64url_baseDecode(source)
      value == json_decode(bytes.val)
  IN IF ~bytes.ok THEN bytes
     ELSE IF ~value.ok THEN value
     ELSE IF value.val = Null THEN Throw("TypeError", context)
     ELSE Ok(Fields(value.val))

Truthy(x) ==
  /\ x.t \notin {"undefined", "null"}
  /\ x.t = "string" => x.v # <<>>
  /\ x.t = "number" => x.v # 0

Only(cond, key, value) == IF cond THEN key :> value ELSE <<>>

----------------------------------------------------------------------------
(* formatter.js *)

JWT == <<"J", "W", "T">>

encodeHeader(v, alg) ==
  json_encode(Obj([alg |-> alg, ucv |-> v, typ |-> Str(JWT)]))

encodeProof(proof) == Str(Link_toString(proof.v))

\* a payload that holds nnc and nbf whenever the model has them
encodePayload_set(data) ==
  json_encode(Obj(
    [iss |-> Str(DID_format(data["iss"].v)),
     aud |-> Str(DID_format(data["aud"].v)),
     att |-> data["att"],
     exp |-> data["exp"],
     prf |-> Arr([i \in 1..Len(data["prf"].v) |-> encodeProof(data["prf"].v[i])])]
    @@ Only(Len(data["fct"].v) > 0, "fct", data["fct"])
    @@ Only(data["nnc"] \notin {Undef, Null}, "nnc", data["nnc"])
    @@ Only(data["nbf"] \notin {Undef, Null}, "nbf", data["nbf"])))

encodePayload(data) ==
  json_encode(Obj(
    [iss |-> Str(DID_format(data["iss"].v)),
     aud |-> Str(DID_format(data["aud"].v)),
     att |-> data["att"],
     exp |-> data["exp"],
     prf |-> Arr([i \in 1..Len(data["prf"].v) |-> encodeProof(data["prf"].v[i])])]
    @@ Only(Len(data["fct"].v) > 0, "fct", data["fct"])
    @@ Only(Truthy(data["nnc"]), "nnc", data["nnc"])
    @@ Only(Truthy(data["nbf"]), "nbf", data["nbf"])))

formatHeader(version, alg) == base64url_baseEncode(encodeHeader(version, alg))

formatPayload(data) == base64url_baseEncode(encodePayload(data))

formatSignature(signature) == base64url_baseEncode(raw(signature).val)

Formatter_format(model) ==
  << formatHeader(model["v"], Str(algorithm(model["s"].v).val)),
     formatPayload(model),
     formatSignature(model["s"].v) >>

\* the signing payload: header and body of the token, without the signature
formatSignPayload(model, alg) ==
  << formatHeader(model["v"], alg), formatPayload(model) >>

----------------------------------------------------------------------------
(* parser.js *)

\* typ, ucv and alg of the header, in the order they are read
headerOf(json) ==
  IF ~json.ok THEN json
  ELSE FirstThrow(<< readLiteral(Get(json.val, "typ"), Str(JWT), <<"typ">>),
                     readVersion(Get(json.val, "ucv"), <<"ucv">>),
                     readString(Get(json.val, "alg"), <<"alg">>) >>)

parseHeader(header) == headerOf(decodeFields(header, <<"header">>))

payloadOf(json) == IF json.ok THEN readJWTPayload(json.val) ELSE json

parsePayload(source) == payloadOf(decodeFields(source, <<"payload">>))

\* { ...payload, v: ucv, s: createSignature(alg, raw) }, given the header,
\* the payload and the raw signature
modelOf(parts) ==
  IF parts.ok
  THEN Ok(parts.val[2]
          @@ [v |-> parts.val[1][2],
              s |-> Bytes(createNamed(parts.val[1][3].v, parts.val[3]))])
  ELSE parts

Parser_parse(jwt) ==
  IF Len(jwt) # 3 THEN Throw("ParseError", <<"jwt">>)
  ELSE modelOf(FirstThrow(<< parseHeader(jwt[1]),
                             parsePayload(jwt[2]),
                             base64url_baseDecode(jwt[3]) >>))

\* the parser of the earlier releases, as issue reaches it: asCapability
\* with the rule on my:* and as:did:*
ownedResource(capability) ==
  IF ~capability.ok THEN capability
  ELSE IF /\ EndsWith(capability.val.v["with"].v, <<"*">>)
          /\ capability.val.v["can"] # Str(<<"*">>)
          /\ \/ StartsWith(capability.val.v["with"].v, <<"m", "y", ":">>)
             \/ StartsWith(capability.val.v["with"].v, <<"a", "s", ":", "d", "i", "d", ":">>)
  THEN Throw("ParseError", <<"can">>)
  ELSE capability

Parser_asCapability(input) == ownedResource(asCapability(input))

parseCapability(input, context) ==
  IF IsStruct(input) THEN Parser_asCapability(input)
  ELSE Throw("ParseError", context)

parseCapabilities(input, context) ==
  readArray(input,
            [n \in 1..Len(input.v) |-> parseCapability(input.v[n], At(context, n))],
            context)

Parser_parseDID(input, context) ==
  IF input.t = "string" /\ StartsWith(input.v, DID_PREFIX)
  THEN OkBytes(DID_parse(input.v))
  ELSE Throw("ParseError", context)

parseOptionalString(input, context) ==
  IF input.t \in {"string", "undefined"} THEN Ok(input)
  ELSE Throw("ParseError", context)

parseOptionalInt(input, context) ==
  IF input.t = "undefined" THEN Ok(Undef)
  ELSE IF input.t \in {"number", "fraction", "Infinity"} THEN readInt(input, context)
  ELSE Throw("ParseError", context)

----------------------------------------------------------------------------
(* codec/cbor.js *)

\* @ipld/dag-cbor: a deterministic encoding, one buffer per value
dagcbor_encode(value) == Uint8Array(<< [cbor |-> value] >>)
dagcbor_decode(bytes) ==
  IF bytes.byteLength = 1 /\ "cbor" \in DOMAIN Content(bytes)[1]
  THEN Ok(Content(bytes)[1].cbor)
  ELSE Throw("Error", <<"cbor">>)

encodeSignature(signature, context) ==
  IF Signature_encode(signature.v).ok THEN Signature_encode(signature.v)
  ELSE Throw("Error", context)

\* the block as the earlier encode wrote it: nnc only when it is truthy
blockOf_earlier(parts) ==
  IF parts.ok
  THEN Ok(dagcbor_encode(Obj(
         Only(Len(parts.val[1]["fct"].v) > 0, "fct", parts.val[1]["fct"])
         @@ Only(Truthy(parts.val[1]["nnc"]), "nnc", parts.val[1]["nnc"])
         @@ Only(Truthy(parts.val[1]["nbf"]), "nbf", parts.val[1]["nbf"])
         @@ [key \in {"iss", "aud", "att", "prf", "exp"} |-> parts.val[1][key]]
         @@ [v |-> parts.val[2], s |-> parts.val[3]])))
  ELSE parts

\* the block of a model, given its payload, version and signature as read
blockOf(parts) ==
  IF parts.ok
  THEN Ok(dagcbor_encode(Obj(
         Only(Len(parts.val[1]["fct"].v) > 0, "fct", parts.val[1]["fct"])
         @@ Only(parts.val[1]["nnc"] \notin {Undef, Null}, "nnc", parts.val[1]["nnc"])
         @@ Only(Truthy(parts.val[1]["nbf"]), "nbf", parts.val[1]["nbf"])
         @@ [key \in {"iss", "aud", "att", "prf", "exp"} |-> parts.val[1][key]]
         @@ [v |-> parts.val[2], s |-> parts.val[3]])))
  ELSE parts

CBOR_encode(model) ==
  blockOf(FirstThrow(<< readPayload(model),
                        readVersion(Get(model, "v"), <<"v">>),
                        encodeSignature(Get(model, "s"), <<"s">>) >>))

\* { ...readPayload(model), v: readVersion(model.v), s: readSignature(model.s) }
modelRead(parts) ==
  IF parts.ok THEN Ok(parts.val[1] @@ [v |-> parts.val[2], s |-> parts.val[3]])
  ELSE parts

decodedOf(model) ==
  IF ~model.ok THEN model
  ELSE IF model.val = Null THEN Throw("TypeError", <<"model">>)
  ELSE modelRead(FirstThrow(<< readPayload(Fields(model.val)),
                               readVersion(Get(Fields(model.val), "v"), <<"v">>),
                               readSignature(Get(Fields(model.val), "s")) >>))

CBOR_decode(bytes) == decodedOf(dagcbor_decode(bytes))

CBOR_parseDID(input, context) ==
  IF input.t # "bytes" THEN Throw("ParseError", context)
  ELSE IF DID_decode(input.v).ok THEN Ok(input)
  ELSE DID_decode(input.v)

MatchKeys == <<"v", "iss", "aud", "att", "exp", "prf", "nnc", "fct", "nbf">>

match(data) ==
  Keyed(MatchKeys, FirstThrow(<<
    readVersion(Get(data, "v"), <<"version">>),
    CBOR_parseDID(Get(data, "iss"), <<"issuer">>),
    CBOR_parseDID(Get(data, "aud"), <<"audience">>),
    parseCapabilities(Get(data, "att"), <<"capabilities">>),
    readExpiry(Get(data, "exp"), <<"expiration">>),
    readProofs(Get(data, "prf"), FALSE, <<"proofs">>),
    parseOptionalString(Get(data, "nnc"), <<"nonce">>),
    readFacts(Get(data, "fct"), <<"facts">>),
    parseOptionalInt(Get(data, "nbf"), <<"notBefore">>) >>))

----------------------------------------------------------------------------
(* view.js *)

NoView == [code |-> 0]
View_cbor(model) == [code |-> CBOR_CODE, model |-> model]
View_jwt(model, bytes) == [code |-> RAW_CODE, model |-> model, bytes |-> bytes]

\* the `expiration` accessor: Infinity when exp is null
expiration(view) ==
  IF view.model["exp"] = Null THEN Inf ELSE view.model["exp"]

notBefore(view) == view.model["nbf"]

----------------------------------------------------------------------------
(* Signers and verifiers: the crypto back-end handed to the library *)

Keys == {"alice", "bob", "rsa"}

did(name) ==
  IF name = "alice" THEN DID_KEY_PREFIX \o <<"z", "A">>
  ELSE IF name = "bob" THEN DID_KEY_PREFIX \o <<"z", "B">>
  ELSE IF name = "rsa" THEN DID_KEY_PREFIX \o <<"z", "R">>
  ELSE IF name = "web" THEN DID_PREFIX \o <<"w", ":", "x">>
  ELSE <<"n", "o">>

signatureAlgorithm(name) == IF name = "rsa" THEN <<"R", "S", "2", "5", "6">> ELSE <<"E", "d", "D", "S", "A">>
signatureCode(name) == IF name = "rsa" THEN RS256 ELSE EdDSA

\* The raw signature of a key over a payload is a function of both, and
\* no other key or payload yields it.
Signed(by, payload) == Uint8Array(<< [by |-> by, over |-> Content(payload)] >>)

sign(name, payload) ==
  Signature_create(signatureCode(name), Signed(name, payload)).val

verify(name, payload, signature) ==
  /\ Signature_code(signature).val = signatureCode(name)
  /\ Content(raw(signature).val) = Content(Signed(name, payload))

\* A verifier as the library is handed one: a key, which answers true or
\* false, one that answers something that is not a boolean, one that throws
Bool(b) == [t |-> "boolean", v |-> b]
Verifiers == Keys \cup {"truthy", "thrower"}
Verifier_verify(name, payload, signature) ==
  IF name = "thrower" THEN Throw("Error", <<"verify">>)
  ELSE IF name = "truthy" THEN Ok(Num(1))
  ELSE Ok(Bool(verify(name, payload, signature)))

----------------------------------------------------------------------------
(* signature.js: text and JSON forms, verification *)

\* multibase base64url: the prefix "u" and the base64url of the bytes
base64url_encode(bytes) == [prefix |-> "u", text |-> base64url_baseEncode(bytes)]
base64url_decode(source) ==
  IF source.prefix # "u" THEN Throw("Error", <<"multibase">>)
  ELSE base64url_baseDecode(source.text)

\* base64 of the standard alphabet, without padding
base64_baseEncode(bytes) == [data |-> Content(bytes), pad |-> 0, std |-> TRUE]
base64_baseDecode(text) ==
  IF text.data = NoBase64 THEN Throw("Error", <<"base64">>)
  ELSE Ok(Uint8Array(text.data))

\* decode of the bytes a step before it decoded, unless that threw
decoded(bytes) == IF bytes.ok THEN Signature_decode(Bytes(bytes.val)) ELSE bytes

Signature_format(signature) == base64url_encode(signature)

Signature_parse(signature) == decoded(base64url_decode(signature))

\* { "/": { bytes } }
toJSON(signature) == [bytes |-> base64_baseEncode(signature)]

fromJSON(json) == decoded(base64_baseDecode(json.bytes))

\* the body of the try block of Signature.verify
verified(answer) ==
  IF ~answer.ok THEN answer
  ELSE IF answer.val = Bool(TRUE) THEN Ok([ok |-> <<>>])
  ELSE Throw("Error", <<"Invalid signature">>)

\* Signature.verify that takes every answer but false for true
Signature_verify_truthy(signature, signer, payload) ==
  LET answer == Verifier_verify(signer, payload, signature)
  IN IF ~answer.ok THEN Ok([error |-> answer.err])
     ELSE IF answer.val # Bool(FALSE) THEN Ok([ok |-> <<>>])
     ELSE Ok([error |-> [name |-> "Error", context |-> <<"Invalid signature">>]])

\* Signature.verify: { ok: {} }, or { error } of what the try block threw
Signature_verify(signature, signer, payload) ==
  LET attempt == verified(Verifier_verify(signer, payload, signature))
  IN IF attempt.ok THEN attempt ELSE Ok([error |-> attempt.err])

----------------------------------------------------------------------------
(* lib.js *)

VERSION == <<"0", ".", "9", ".", "1">>
DefaultLifetime == 30

\* what a step makes of the result of the step before it, unless that threw
cborView(model) == IF model.ok THEN Ok(View_cbor(model.val)) ELSE model
jwtView(model, bytes) == IF model.ok THEN Ok(View_jwt(model.val, bytes)) ELSE model
\* a catch that rethrows what the try block threw when the handler throws
Catch_first(try, catch) == IF try.ok \/ ~catch.ok THEN try ELSE catch

Catch(try, catch) == IF try.ok THEN try ELSE catch

encode(view) ==
  IF view.code = RAW_CODE THEN Ok(view.bytes) ELSE CBOR_encode(view.model)

\* a decode whose fallback drops the bytes it was given
decode_promoting(bytes) ==
  Catch(cborView(CBOR_decode(bytes)), cborView(Parser_parse(UTF8_decode(bytes))))

decode(bytes) ==
  Catch(cborView(CBOR_decode(bytes)),
        jwtView(Parser_parse(UTF8_decode(bytes)), bytes))

\* { bytes, cid: createIPLDLink(ucan.code, digest), data: ucan.model }
blockWritten(view, hasher, bytes) ==
  IF ~bytes.ok THEN bytes
  ELSE Ok([bytes |-> bytes.val,
           cid |-> Link_create(view.code, digest(hasher, bytes.val)),
           data |-> view.model])

\* a write that encodes the model of every view
write_model(view, hasher) == blockWritten(view, hasher, CBOR_encode(view.model))

write(view, hasher) ==
  blockWritten(view, hasher,
               IF view.code = RAW_CODE THEN Ok(view.bytes)
               ELSE CBOR_encode(view.model))

cidOf(written) == IF written.ok THEN Ok(written.val.cid) ELSE written

link(view, hasher) == cidOf(write(view, hasher))

\* a parse that promotes every token it accepts
promote_every(jwt, model) == cborView(model)

\* the round-trip test of parse, on the model parsed from the token
promote(jwt, model) ==
  IF ~model.ok THEN model
  ELSE IF Formatter_format(model.val) = jwt THEN Ok(View_cbor(model.val))
  ELSE Ok(View_jwt(model.val, UTF8_encode(jwt)))

parse(jwt) == promote(jwt, Parser_parse(jwt))

\* a format that re-emits the token of every view
format_reemitted(view) == Formatter_format(view.model)

format(view) ==
  IF view.code = RAW_CODE THEN UTF8_decode(view.bytes)
  ELSE Formatter_format(view.model)

\* parseDID of lib.js: the principal must have a did() method.  A principal
\* is the name of its key, or Undef.
parseDID(value, context) ==
  IF value # Undef THEN Parser_parseDID(Str(did(value.v)), context \o <<".did()">>)
  ELSE Throw("ParseError", context)

Default(value, default) == IF value = Undef THEN default ELSE value

\* an issue whose tokens all live for the default lifetime
issueData_fixed(options, t) ==
  LET iss == parseDID(options.issuer, <<"issuer">>)
      aud == parseDID(options.audience, <<"audience">>)
  IN IF ~iss.ok THEN iss
     ELSE IF ~aud.ok THEN aud
     ELSE match([v |-> Str(VERSION),
                 iss |-> iss.val,
                 aud |-> aud.val,
                 att |-> options.capabilities,
                 fct |-> Default(options.facts, Arr(<<>>)),
                 exp |-> Default(options.expiration, Num(t + DefaultLifetime)),
                 nbf |-> options.notBefore,
                 prf |-> Default(options.proofs, Arr(<<>>)),
                 nnc |-> options.nonce])

\* issue: the validated data, then the payload the issuer signs, then the
\* view of the signed model.  t is the clock reading the default expiration
\* is computed from.
issueData(options, t) ==
  LET iss == parseDID(options.issuer, <<"issuer">>)
      aud == parseDID(options.audience, <<"audience">>)
  IN IF ~iss.ok THEN iss
     ELSE IF ~aud.ok THEN aud
     ELSE match([v |-> Str(VERSION),
                 iss |-> iss.val,
                 aud |-> aud.val,
                 att |-> options.capabilities,
                 fct |-> Default(options.facts, Arr(<<>>)),
                 exp |-> Default(options.expiration,
                                 Num(t + Default(options.lifetimeInSeconds,
                                                 Num(DefaultLifetime)).v)),
                 nbf |-> options.notBefore,
                 prf |-> Default(options.proofs, Arr(<<>>)),
                 nnc |-> options.nonce])

\* an issue that signs the body of the token without its header
issuePayload_headless(data, issuer) == UTF8_encode(<< formatPayload(data) >>)

issuePayload(data, issuer) ==
  UTF8_encode(formatSignPayload(data, Str(signatureAlgorithm(issuer))))

issueSigned(issuer, data) ==
  IF ~data.ok THEN data
  ELSE Ok(View_cbor(data.val @@
            [s |-> Bytes(sign(issuer.v, issuePayload(data.val, issuer.v)))]))

issue(options, t) == issueSigned(options.issuer, issueData(options, t))

\* a verifySignature that does not compare the DIDs
verifySignature_unbound(view, verifier) ==
  Ok(\E name \in Keys :
       verify(name,
              UTF8_encode(formatSignPayload(view.model,
                                            Str(algorithm(view.model["s"].v).val))),
              view.model["s"].v))

verifySignature(view, verifier) ==
  LET alg == algorithm(view.model["s"].v)
  IN IF DID_format(view.model["iss"].v) # did(verifier) THEN Ok(FALSE)
     ELSE IF ~alg.ok THEN alg
     ELSE Ok(verify(verifier,
                    UTF8_encode(formatSignPayload(view.model, Str(alg.val))),
                    view.model["s"].v))

\* a <= b on the numbers, Infinity and undefined of JavaScript
LessOrEqual(a, b) ==
  IF a.t = "number" /\ b.t = "number" THEN a.v <= b.v
  ELSE a.t = "number" /\ b.t = "Infinity"

now(t) == Num(t)

\* an isExpired that spares the second of expiry
isExpired_late(view, t) ==
  expiration(view) # now(t) /\ LessOrEqual(expiration(view), now(t))

isExpired(view, t) == LessOrEqual(expiration(view), now(t))

\* an isTooEarly that lets the token in at the second of nbf
isTooEarly_strict(view, t) ==
  /\ notBefore(view) \notin {Undef, Null, now(t)}
  /\ LessOrEqual(now(t), notBefore(view))

isTooEarly(view, t) ==
  /\ notBefore(view) \notin {Undef, Null}
  /\ LessOrEqual(now(t), notBefore(view))

----------------------------------------------------------------------------
(* The inputs callers hand to the library *)

Principal(name) == [t |-> "principal", v |-> name]

Cap(can, with) == Obj([can |-> Str(can), with |-> Str(with)])
StorePut == Cap(<<"s", "/", "p">>, <<"m", ":", "x">>)
StorePutUpper == Cap(<<"S", "/", "P">>, <<"m", ":", "x">>)
MyAllSend == Cap(<<"s", "/", "p">>, <<"m", "y", ":", "*">>)
AsDidAllSend == Cap(<<"s", "/", "p">>, <<"a", "s", ":", "d", "i", "d", ":", "*">>)
MyAll == Cap(<<"*">>, <<"m", "y", ":", "*">>)

Junk == Uint8Array(<< Octet(0) >>)

ProofLink == Link_create(CBOR_CODE, digest(sha256, Junk))

IssueDefaults ==
  [issuer |-> Principal("alice"), audience |-> Principal("bob"),
   capabilities |-> Arr(<<StorePut>>), lifetimeInSeconds |-> Undef,
   expiration |-> Undef, notBefore |-> Undef, facts |-> Undef,
   proofs |-> Undef, nonce |-> Undef]

IssueOptions ==
  { IssueDefaults,
    [IssueDefaults EXCEPT !.lifetimeInSeconds = Num(1), !.notBefore = Num(1),
                          !.nonce = Str(<<"n">>)],
    [IssueDefaults EXCEPT !.expiration = Inf, !.notBefore = Num(0)],
    [IssueDefaults EXCEPT !.expiration = Num(2), !.nonce = Str(<<>>)],
    [IssueDefaults EXCEPT !.issuer = Principal("rsa"), !.audience = Principal("web"),
                          !.expiration = Null, !.proofs = Arr(<<LinkV(ProofLink)>>),
                          !.facts = Arr(<<Obj([f |-> Num(1)])>>)],
    [IssueDefaults EXCEPT !.capabilities = Arr(<<MyAll, StorePutUpper>>),
                          !.expiration = Num(1)],
    [IssueDefaults EXCEPT !.capabilities = Arr(<<MyAllSend>>)],
    [IssueDefaults EXCEPT !.capabilities = Arr(<<StorePut, AsDidAllSend>>)],
    [IssueDefaults EXCEPT !.audience = Principal("nobody")],
    [IssueDefaults EXCEPT !.issuer = Undef],
    [IssueDefaults EXCEPT !.notBefore = Frac(1)],
    [IssueDefaults EXCEPT !.capabilities = Arr(<<>>)] }

\* JWT tokens, built from the JSON of their header and payload
Header(alg) == Obj([alg |-> Str(alg), ucv |-> Str(VERSION), typ |-> Str(JWT)])
Payload ==
  [iss |-> Str(did("alice")), aud |-> Str(did("bob")), att |-> Arr(<<StorePut>>),
   exp |-> Num(2), prf |-> Arr(<<>>)]

Segment(value) == base64url_baseEncode(json_encode(value))
SignedBy(by, header, payload) ==
  << header, payload,
     base64url_baseEncode(Signed(by, UTF8_encode(<<header, payload>>))) >>
Token(header, payload) == SignedBy("alice", Segment(header), Segment(Obj(payload)))

Canonical == Token(Header(<<"E", "d", "D", "S", "A">>), Payload)

AcceptedTokens ==
  { Canonical,
    [Canonical EXCEPT ![3].pad = 1],
    SignedBy("alice", Segment(Header(<<"E", "d", "D", "S", "A">>)),
           [Segment(Obj(Payload)) EXCEPT !.data[1].canon = FALSE]),
    Token(Obj(Header(<<"E", "d", "D", "S", "A">>).v @@ [kid |-> Num(1)]), Payload),
    Token(Header(<<"X", "X">>), Payload),
    Token(Obj([Header(<<"E", "d", "D", "S", "A">>).v EXCEPT !["ucv"] = Str(<<"x", "0", ".", "9", ".", "1">>)]),
          Payload),
    Token(Header(<<"E", "d", "D", "S", "A">>), Payload @@ [nbf |-> Num(0)]),
    Token(Header(<<"E", "d", "D", "S", "A">>), Payload @@ [nbf |-> Num(2), nnc |-> Str(<<"n">>)]),
    Token(Header(<<"E", "d", "D", "S", "A">>), Payload @@ [nnc |-> Str(<<>>)]),
    Token(Header(<<"E", "d", "D", "S", "A">>), Payload @@ [fct |-> Arr(<<>>)]),
    Token(Header(<<"E", "d", "D", "S", "A">>), [Payload EXCEPT !.exp = Null]),
    Token(Header(<<"E", "d", "D", "S", "A">>), [Payload EXCEPT !.att = Arr(<<MyAllSend>>)]),
    Token(Header(<<"E", "d", "D", "S", "A">>), [Payload EXCEPT !.att = Arr(<<MyAll>>)]),
    Token(Header(<<"E", "d", "D", "S", "A">>), [Payload EXCEPT !.att = Arr(<<StorePutUpper>>)]),
    Token(Header(<<"E", "d", "D", "S", "A">>), [Payload EXCEPT !.prf = Arr(<<Str(<<"n", "o">>)>>)]),
    Token(Header(<<"E", "d", "D", "S", "A">>), [Payload EXCEPT !.prf = Arr(<<Str(<<"b", ProofLink>>)>>)]),
    Token(Header(<<"E", "d", "D", "S", "A">>), [Payload EXCEPT !.prf = Arr(<<Str(<<"z", ProofLink>>)>>)]),
    Token(Header(<<"E", "d", "D", "S", "A">>), [Payload EXCEPT !.att = Arr(<<>>)]),
    SignedBy("bob", Segment(Header(<<"E", "d", "D", "S", "A">>)), Segment(Obj(Payload))) }

RejectedTokens ==
  { SubSeq(Canonical, 1, 2),
    [Canonical EXCEPT ![2].data = NoBase64],
    [Canonical EXCEPT ![3].data = NoBase64],
    Token(Obj([Header(<<"E", "d", "D", "S", "A">>).v EXCEPT !["typ"] = Str(<<"J">>)]), Payload),
    Token(Obj([Header(<<"E", "d", "D", "S", "A">>).v EXCEPT !["ucv"] = Str(<<"0", ".", "9">>)]), Payload),
    Token(Obj([Header(<<"E", "d", "D", "S", "A">>).v EXCEPT !["alg"] = Num(1)]), Payload),
    Token(Header(<<"E", "d", "D", "S", "A">>), [Payload EXCEPT !.aud = Str(<<"n", "o">>)]),
    Token(Header(<<"E", "d", "D", "S", "A">>), [Payload EXCEPT !.exp = Frac(1)]),
    Token(Header(<<"E", "d", "D", "S", "A">>), [k \in {"iss", "aud", "exp"} |-> Payload[k]]),
    Token(Header(<<"E", "d", "D", "S", "A">>), [Payload EXCEPT !.att = Arr(<<Cap(<<"s">>, <<"m", ":", "x">>)>>)]),
    Token(Header(<<"E", "d", "D", "S", "A">>), [Payload EXCEPT !.att = Arr(<<Cap(<<"s", "/", "p">>, <<"x">>)>>)]) }

Tokens == AcceptedTokens \cup RejectedTokens

\* DAG-CBOR blocks
Block ==
  [v |-> Str(VERSION),
   iss |-> Bytes(DID_parse(did("alice")).val), aud |-> Bytes(DID_parse(did("web")).val),
   att |-> Arr(<<StorePut>>), exp |-> Num(1), prf |-> Arr(<<LinkV(ProofLink)>>),
   s |-> Bytes(sign("alice", Junk))]

Blocks ==
  { dagcbor_encode(Obj(Block)),
    dagcbor_encode(Obj(Block @@ [nbf |-> Num(0)])),
    dagcbor_encode(Obj(Block @@ [nbf |-> Num(3), nnc |-> Str(<<>>), fct |-> Arr(<<>>)])),
    dagcbor_encode(Obj([Block EXCEPT !.exp = Null, !.att = Arr(<<MyAllSend>>)])),
    dagcbor_encode(Obj([Block EXCEPT !.s = Bytes(Uint8Array(varint_encode(NON_STANDARD + 1)
                                                \o varint_encode(1) \o Content(Junk)))])),
    dagcbor_encode(Obj([Block EXCEPT !.s = Bytes(createNonStandard(<<"X", "X">>, Junk))])),
    dagcbor_encode(Obj([Block EXCEPT !.iss = Str(did("alice"))])),
    dagcbor_encode(Obj([Block EXCEPT !.att = Arr(<<>>)])),
    dagcbor_encode(Obj([Block EXCEPT !.v = Str(<<"0", ".", "9", ".", "1", "x">>)])),
    dagcbor_encode(Num(1)),
    Junk }

Buffers ==
  Blocks \cup
  { UTF8_encode(Canonical),
    Uint8Array(<< BOM >> \o Content(UTF8_encode(Canonical))),
    UTF8_encode([Canonical EXCEPT ![3].pad = 1]),
    UTF8_encode(Token(Header(<<"E", "d", "D", "S", "A">>), [Payload EXCEPT !.att = Arr(<<MyAllSend>>)])),
    UTF8_encode(SubSeq(Canonical, 1, 2)) }

----------------------------------------------------------------------------
(* The state machine: a caller holding one view at a time *)

NoCall == [op |-> "none"]

\* the callers, each of whom may have one call waiting
Tasks == {"a", "b"}

Call(op, arg, result) ==
  [op |-> op, arg |-> arg, ok |-> result.ok,
   out |-> IF result.ok THEN result.val ELSE result.err]

Init ==
  /\ clock = 0
  /\ ucan = NoView
  /\ origin = [op |-> "none"]
  /\ last = NoCall
  /\ pending = {}

\* time passes
Tick ==
  /\ clock < MaxClock
  /\ clock' = clock + 1
  /\ UNCHANGED <<ucan, origin, last, pending>>

\* A call that returns a view hands it to the caller; one that throws
\* leaves the caller with the view it had.
Returns(op, arg, result, by) ==
  /\ last' = Call(op, arg, result)
  /\ IF result.ok
     THEN ucan' = result.val /\ origin' = [op |-> op, arg |-> arg, by |-> by]
     ELSE UNCHANGED <<ucan, origin>>
  /\ UNCHANGED pending

\* A call on the view the caller holds
Answers(op, arg, result) ==
  /\ ucan # NoView
  /\ last' = Call(op, arg, result)
  /\ UNCHANGED pending

\* The caller may pass what the last call returned to the next.
Returned(op) == IF last.op = op /\ last.ok THEN {last.out} ELSE {}

\* What issue, parse and decode return for the inputs of the caller, worked
\* out once for all the states
Issued == [options \in IssueOptions |-> [time \in 0..MaxClock |-> issue(options, time)]]
Parsed == [jwt \in Tokens |-> parse(jwt)]
Read == [bytes \in Buffers |-> decode(bytes)]

Issue(options) ==
  /\ Returns("issue", options, Issued[options][clock], options.issuer.v)
  /\ UNCHANGED clock

Parse(jwt) ==
  /\ Returns("parse", jwt, IF jwt \in Tokens THEN Parsed[jwt] ELSE parse(jwt), "")
  /\ UNCHANGED clock

Decode(bytes) ==
  /\ Returns("decode", bytes,
             IF bytes \in Buffers THEN Read[bytes] ELSE decode(bytes), "")
  /\ UNCHANGED clock

\* a call comes to an await, while a caller is free to make it
Awaits(call) ==
  /\ Cardinality(pending) < Cardinality(Tasks)
  /\ pending' = pending \cup {call}
  /\ UNCHANGED <<clock, ucan, origin, last>>

\* an encode that waits for something before it returns
Encode_waiting ==
  /\ ucan # NoView
  /\ Awaits([op |-> "encode", awaits |-> "encoder", arg |-> <<>>, view |-> ucan])

Encode ==
  /\ Answers("encode", <<>>, encode(ucan))
  /\ UNCHANGED <<clock, ucan, origin>>

\* a format that makes the view it is given a CBOR-view
Format_promoting ==
  /\ ucan # NoView
  /\ last' = Call("format", <<>>, Ok(format(ucan)))
  /\ ucan' = View_cbor(ucan.model)
  /\ UNCHANGED <<clock, origin, pending>>

Format ==
  /\ Answers("format", <<>>, Ok(format(ucan)))
  /\ UNCHANGED <<clock, ucan, origin>>

Write(hasher) ==
  /\ Answers("write", hasher, write(ucan, hasher))
  /\ UNCHANGED <<clock, ucan, origin>>

LinkOf(hasher) ==
  /\ Answers("link", hasher, link(ucan, hasher))
  /\ UNCHANGED <<clock, ucan, origin>>

VerifySignature(verifier) ==
  /\ Answers("verifySignature", verifier, verifySignature(ucan, verifier))
  /\ UNCHANGED <<clock, ucan, origin>>

\* the argument recorded for a time check is the clock reading it made
IsExpired ==
  /\ Answers("isExpired", clock, Ok(isExpired(ucan, clock)))
  /\ UNCHANGED <<clock, ucan, origin>>

IsTooEarly ==
  /\ Answers("isTooEarly", clock, Ok(isTooEarly(ucan, clock)))
  /\ UNCHANGED <<clock, ucan, origin>>

Next ==
  \/ Tick
  \/ \E options \in IssueOptions : Issue(options)
  \/ \E jwt \in Tokens : Parse(jwt)
  \/ \E jwt \in Returned("format") : Parse(jwt)
  \/ \E bytes \in Buffers : Decode(bytes)
  \/ \E bytes \in Returned("encode") : Decode(bytes)
  \/ Encode
  \/ Format
  \/ \E hasher \in Hashers : Write(hasher)
  \/ \E hasher \in Hashers : LinkOf(hasher)
  \/ \E verifier \in Keys : VerifySignature(verifier)
  \/ IsExpired
  \/ IsTooEarly

Spec == Init /\ [][Next]_vars

----------------------------------------------------------------------------
(* did.js and signature.js called on their own: principals and envelopes *)

MaxRaw == 1
LongRaw == 128

\* raw signatures: of every length to MaxRaw, and one whose length takes
\* two bytes to write
Raws == { Uint8Array([i \in 1..n |-> Octet(i % 256)]) : n \in (0..MaxRaw) \cup {LongRaw} }

Codes == { a.code : a \in Algorithms } \cup {NON_STANDARD, NON_STANDARD + 1, 0}

Names ==
  { a.name : a \in Algorithms } \cup
  { <<"G", "O", "Z", "2", "5", "6">>, <<"e", "s", "2", "5", "6">>, <<>>,
    << ZWNBSP, "X" >>, << "X", LoneSurrogate >> }

DIDs ==
  { DID_KEY_PREFIX \o e.text : e \in Base58Table } \cup
  { DID_KEY_PREFIX \o <<"z", "Z">>, DID_KEY_PREFIX \o <<"m", "A">>,
    DID_PREFIX \o <<"w", ":", "x">>, DID_PREFIX,
    DID_PREFIX \o << ZWNBSP, "w", ":", "x" >>,
    DID_PREFIX \o << "w", ":", LoneSurrogate >>,
    <<"d", "1", "d", ":", "k", "e", "y", ":", "z", "A">> }

\* the envelope of a signature of an algorithm that has no code
Named == createNonStandard(<<"X">>, Uint8Array(<< Octet(7) >>))

\* byte strings handed to Signature.decode that no create returned, and
\* one envelope as a window on a buffer that holds other bytes around it
Envelopes ==
  { Bytes(Uint8Array(varint_encode(NON_STANDARD + 1) \o varint_encode(1) \o << Octet(7) >>)),
    Bytes(Uint8Array(varint_encode(EdDSA) \o varint_encode(2) \o << Octet(7) >>)),
    Bytes(Uint8Array(varint_encode(EdDSA))),
    Bytes(Uint8Array(<< Octet(237) >>)),
    Bytes(Uint8Array(<<>>)),
    Str(<<"x">>),
    Bytes(Named),
    Bytes([buffer |-> Named.buffer \o << [c |-> "Y"] >>, byteOffset |-> 0,
           byteLength |-> Named.byteLength]),
    Bytes([buffer |-> << Octet(0) >> \o Named.buffer, byteOffset |-> 1,
           byteLength |-> Named.byteLength]) }

\* byte views handed to DID.decode: a principal that fills its buffer, and
\* the same bytes as a window on a buffer that holds other bytes after or
\* before them
Web == varint_encode(DID_CORE) \o << [c |-> "w"], [c |-> ":"], [c |-> "x"] >>
Key == KeyBytes(ED25519, << Octet(1) >>)
Principals ==
  { Uint8Array(Web),
    [buffer |-> Web \o << [c |-> "y"] >>, byteOffset |-> 0, byteLength |-> Len(Web)],
    [buffer |-> << Octet(0) >> \o Web, byteOffset |-> 1, byteLength |-> Len(Web)],
    Uint8Array(Key),
    [buffer |-> Key \o << Octet(9) >>, byteOffset |-> 0, byteLength |-> Len(Key)],
    Uint8Array(<< Octet(0) >>) }

Payloads == { Uint8Array(<< Octet(1) >>), Uint8Array(<< Octet(1), Octet(2) >>) }

CodecsInit ==
  /\ clock = 0
  /\ ucan = NoView
  /\ origin = [op |-> "none"]
  /\ last = NoCall
  /\ pending = {}

\* a call on an input of the caller's
Calls(op, arg, result) ==
  /\ last' = [op |-> op, arg |-> arg, ok |-> result.ok,
              out |-> IF result.ok THEN result.val ELSE result.err,
              of |-> NoCall]
  /\ UNCHANGED <<clock, ucan, origin, pending>>

\* a call on what the last call returned
Follows(ops, op, arg, result) ==
  /\ last.op \in ops
  /\ last.ok
  /\ last' = [op |-> op, arg |-> arg, ok |-> result.ok,
              out |-> IF result.ok THEN result.val ELSE result.err,
              of |-> last]
  /\ UNCHANGED <<clock, ucan, origin, pending>>

Creators == {"Signature.create", "Signature.createNamed", "sign"}

DIDParse(source) ==
  /\ Calls("DID.parse", source, DID_parse(source))

DIDDecode(bytes) ==
  /\ Calls("DID.decode", bytes, DID_decode(bytes))

DIDFormat ==
  /\ Follows({"DID.parse", "DID.decode"}, "DID.format", last.out,
             Ok(DID_format(last.out)))

SignatureCreate(code, bytes) ==
  /\ Calls("Signature.create", [code |-> code, raw |-> bytes], Signature_create(code, bytes))

SignatureCreateNamed(name, bytes) ==
  /\ Calls("Signature.createNamed", [name |-> name, raw |-> bytes],
           Ok(createNamed(name, bytes)))

Sign(name, payload) ==
  /\ Calls("sign", [by |-> name, payload |-> payload], Ok(sign(name, payload)))

SignatureEncode ==
  /\ Follows(Creators, "Signature.encode", last.out, Signature_encode(last.out))

SignatureDecode(bytes) ==
  /\ Calls("Signature.decode", bytes, Signature_decode(bytes))

SignatureDecodeEncoded ==
  /\ Follows({"Signature.encode"}, "Signature.decode", last.out, Signature_decode(last.out))

\* the `algorithm` accessor of a signature created or decoded
SignatureAlgorithm ==
  /\ Follows(Creators \cup {"Signature.decode"}, "algorithm", last.out,
             algorithm(last.out))

SignatureFormat ==
  /\ Follows(Creators, "Signature.format", last.out, Ok(Signature_format(last.out)))

SignatureParse ==
  /\ Follows({"Signature.format"}, "Signature.parse", last.out, Signature_parse(last.out))

SignatureToJSON ==
  /\ Follows(Creators, "Signature.toJSON", last.out, Ok(toJSON(last.out)))

SignatureFromJSON ==
  /\ Follows({"Signature.toJSON"}, "Signature.fromJSON", last.out, fromJSON(last.out))

SignatureVerify(signer, payload) ==
  /\ Follows(Creators, "verify", [signer |-> signer, payload |-> payload],
             Signature_verify(last.out, signer, payload))

CodecsNext ==
  \/ \E source \in DIDs : DIDParse(source)
  \/ \E bytes \in Principals : DIDDecode(bytes)
  \/ DIDFormat
  \/ \E code \in Codes, bytes \in Raws : SignatureCreate(code, bytes)
  \/ \E name \in Names, bytes \in Raws : SignatureCreateNamed(name, bytes)
  \/ \E name \in Keys, payload \in Payloads : Sign(name, payload)
  \/ SignatureEncode
  \/ \E bytes \in Envelopes : SignatureDecode(bytes)
  \/ SignatureDecodeEncoded
  \/ SignatureAlgorithm
  \/ SignatureFormat
  \/ SignatureParse
  \/ SignatureToJSON
  \/ SignatureFromJSON
  \/ \E signer \in Verifiers, payload \in Payloads : SignatureVerify(signer, payload)

Codecs == CodecsInit /\ [][CodecsNext]_vars

----------------------------------------------------------------------------
(* lib.js with its awaits: calls that wait and the calls made meanwhile *)

\* an issue that asks the issuer to sign before it validates
signRequest_first(options, t) ==
  Ok([data |-> [att |-> options.capabilities], payload |-> UTF8_encode(<<>>)])

\* issue up to `await issuer.sign(payload)`: the validated data and the
\* payload handed to the signer, unless validation threw
signRequest(options, t) ==
  LET data == issueData(options, t)
  IN IF data.ok
     THEN Ok([data |-> data.val,
              payload |-> issuePayload(data.val, options.issuer.v)])
     ELSE data

\* issue after the await: View.cbor({ ...data, s: signature })
signedView(data, signature) == View_cbor(data @@ [s |-> Bytes(signature)])

\* the inputs of the callers
AsyncOptions ==
  { [IssueDefaults EXCEPT !.lifetimeInSeconds = Num(1)],
    [IssueDefaults EXCEPT !.capabilities = Arr(<<MyAllSend>>)],
    [IssueDefaults EXCEPT !.issuer = Undef] }

AsyncTokens ==
  { SignedBy("alice", Segment(Header(<<"E", "d", "D", "S", "A">>)),
             [Segment(Obj(Payload)) EXCEPT !.data[1].canon = FALSE]) }

AsyncInit ==
  /\ clock = 0
  /\ ucan = NoView
  /\ origin = [op |-> "none"]
  /\ last = NoCall
  /\ pending = {}

\* what issue does before its await, worked out once for all the states
Requested ==
  [options \in AsyncOptions |-> [time \in 0..MaxClock |-> signRequest(options, time)]]

\* a call throws or returns before any await
Completes(op, arg, result) ==
  /\ last' = Call(op, arg, result)
  /\ UNCHANGED <<clock, ucan, origin, pending>>

\* what a call waited for is settled, and the call returns
Resumes(call, result) ==
  /\ call \in pending
  /\ last' = Call(call.op, call.arg, result)
  /\ pending' = pending \ {call}
  /\ UNCHANGED clock

IssueCalled(options) ==
  /\ options \in AsyncOptions
  /\ IF Requested[options][clock].ok
     THEN Awaits([op |-> "issue", awaits |-> "sign", arg |-> options,
                  at |-> clock, data |-> Requested[options][clock].val.data,
                  payload |-> Requested[options][clock].val.payload])
     ELSE Completes("issue", options, Requested[options][clock])

\* the call of issue that returned last was made at `at` and returned at `to`
IssueResumes(call) ==
  /\ call.op = "issue"
  /\ call \in pending
  /\ last' = Call("issue", call.arg,
                  Ok(signedView(call.data, sign(call.arg.issuer.v, call.payload))))
              @@ [at |-> call.at, to |-> clock]
  /\ pending' = pending \ {call}
  /\ ucan' = signedView(call.data, sign(call.arg.issuer.v, call.payload))
  /\ origin' = [op |-> "issue", arg |-> call.arg, by |-> call.arg.issuer.v]
  /\ UNCHANGED clock

\* write up to `await hasher.digest(bytes)`
WriteCalled(hasher) ==
  /\ ucan # NoView
  /\ IF encode(ucan).ok
     THEN Awaits([op |-> "write", awaits |-> "digest", arg |-> hasher,
                  view |-> ucan, bytes |-> encode(ucan).val])
     ELSE Completes("write", hasher, encode(ucan))

WriteResumes(call) ==
  /\ call.op = "write"
  /\ Resumes(call, blockWritten(call.view, call.arg, Ok(call.bytes)))
  /\ UNCHANGED <<ucan, origin>>

\* link awaits the write it calls, which awaits the digest
LinkCalled(hasher) ==
  /\ ucan # NoView
  /\ IF encode(ucan).ok
     THEN Awaits([op |-> "link", awaits |-> "write", arg |-> hasher,
                  view |-> ucan, bytes |-> encode(ucan).val])
     ELSE Completes("link", hasher, encode(ucan))

LinkResumes(call) ==
  /\ call.op = "link"
  /\ Resumes(call, cidOf(blockWritten(call.view, call.arg, Ok(call.bytes))))
  /\ UNCHANGED <<ucan, origin>>

\* verifySignature answers false itself when the DIDs differ, and else
\* returns what verifier.verify returned, which the caller awaits
VerifySignatureCalled(verifier) ==
  /\ ucan # NoView
  /\ IF /\ DID_format(ucan.model["iss"].v) = did(verifier)
        /\ algorithm(ucan.model["s"].v).ok
     THEN Awaits([op |-> "verifySignature", awaits |-> "verify",
                  arg |-> verifier, view |-> ucan])
     ELSE Completes("verifySignature", verifier, verifySignature(ucan, verifier))

VerifySignatureResumes(call) ==
  /\ call.op = "verifySignature"
  /\ Resumes(call, verifySignature(call.view, call.arg))
  /\ UNCHANGED <<ucan, origin>>

AsyncNext ==
  \/ Tick
  \/ \E options \in AsyncOptions : IssueCalled(options)
  \/ \E call \in pending : IssueResumes(call)
  \/ WriteCalled(sha256)
  \/ \E call \in pending : WriteResumes(call)
  \/ LinkCalled(sha256)
  \/ \E call \in pending : LinkResumes(call)
  \/ \E verifier \in {"alice", "bob"} : VerifySignatureCalled(verifier)
  \/ \E call \in pending : VerifySignatureResumes(call)
  \/ \E jwt \in AsyncTokens : Parse(jwt)
  \/ Encode
  \/ Format

Async == AsyncInit /\ [][AsyncNext]_vars

----------------------------------------------------------------------------
(* Properties *)

IsJWTView(view) == "bytes" \in DOMAIN view

\* C1: parse(j) returns a CBOR-view exactly when the canonical formatter
\* re-emits j from the Model parsed from j; otherwise it returns a JWT-view
\* with that same Model and the UTF-8 bytes of j.
C1_ParsePromotesCanonical ==
  (last.op = "parse" /\ last.ok) =>
    LET model == Parser_parse(last.arg)
    IN /\ model.ok
       /\ ucan = last.out
       /\ ucan.model = model.val
       /\ ~IsJWTView(ucan) <=> (Formatter_format(model.val) = last.arg)
       /\ ~IsJWTView(ucan) => ucan.code = CBOR_CODE
       /\ IsJWTView(ucan) => ucan.code = RAW_CODE /\ ucan.bytes = UTF8_encode(last.arg)

\* a token with a padded signature has been parsed and kept as a JWT-view
C1_Witness ==
  /\ last.op = "parse" /\ last.ok
  /\ last.arg[3].pad = 1
  /\ IsJWTView(ucan)
  /\ Formatter_format(ucan.model) # last.arg

\* C2: format(parse(j)) = j for every token j that parse accepts, promoted
\* or not.
C2_FormatOfParse ==
  (origin.op = "parse" /\ last.op = "format") => (last.ok /\ last.out = origin.arg)

\* a token kept as a JWT-view, which the formatter would emit otherwise, has
\* been formatted
C2_Witness ==
  /\ origin.op = "parse" /\ last.op = "format"
  /\ IsJWTView(ucan)
  /\ last.out # Formatter_format(ucan.model)

\* C3: write(v) returns the bytes encode(v) returns and a CIDv1 over them,
\* with the RAW codec for a JWT-view and the DAG-CBOR codec for a CBOR-view;
\* link(v) is that CID; encode of a JWT-view is the UTF-8 of the token parsed.
C3_WriteLinksEncoded ==
  /\ last.op = "write" =>
       /\ last.ok
       /\ Ok(last.out.bytes) = encode(ucan)
       /\ last.out.cid = [version |-> 1,
                          code |-> IF IsJWTView(ucan) THEN RAW_CODE ELSE CBOR_CODE,
                          multihash |-> digest(last.arg, last.out.bytes)]
  /\ last.op = "link" =>
       /\ last.ok
       /\ last.out = [version |-> 1,
                      code |-> IF IsJWTView(ucan) THEN RAW_CODE ELSE CBOR_CODE,
                      multihash |-> digest(last.arg, encode(ucan).val)]
  /\ (last.op = "encode" /\ origin.op = "parse" /\ IsJWTView(ucan)) =>
       (last.ok /\ last.out = UTF8_encode(origin.arg))

\* a JWT-view has been written with the identity hasher
C3_Witness ==
  /\ last.op = "write" /\ last.ok
  /\ IsJWTView(ucan)
  /\ last.arg = identity
  /\ last.out.cid.code = RAW_CODE

\* C4: decode(encode(v)) has the representation of v and a Model equal to
\* the Model of v, whatever the optional fields of v hold.
C4_DecodeOfEncode ==
  [][ (last.op = "encode" /\ last.ok /\ last'.op = "decode" /\ last'.arg = last.out)
      => (last'.ok /\ ucan'.code = ucan.code /\ ucan'.model = ucan.model) ]_vars

\* C5: parse(format(v)) of a CBOR-view v that issue returned is a CBOR-view
\* with the Model of v.
C5_ParseOfFormat ==
  [][ (origin.op = "issue" /\ last.op = "format" /\ last'.op = "parse"
       /\ last'.arg = last.out)
      => (last'.ok /\ ucan'.code = CBOR_CODE /\ ucan'.model = ucan.model) ]_vars

\* the fallback of decode was taken: the bytes were no DAG-CBOR token
FellBack == origin.op = "decode" /\ ~CBOR_decode(origin.arg).ok

\* C6, as the specification has it: the fallback of decode gives the
\* representation parse gives the token.
C6_FallbackAsParse ==
  FellBack => ucan.code = parse(UTF8_decode(origin.arg)).val.code

\* C6: the fallback of decode gives a JWT-view that keeps the bytes given,
\* with the Model parse gives the token; its representation is that of
\* parse exactly when the token is not canonical.
C6_FallbackKeepsBytes ==
  FellBack =>
    LET jwt == UTF8_decode(origin.arg)
    IN /\ ucan = View_jwt(Parser_parse(jwt).val, origin.arg)
       /\ ucan.model = parse(jwt).val.model
       /\ (ucan.code = parse(jwt).val.code) <=> (Formatter_format(ucan.model) # jwt)

\* the bytes of a canonical token have been decoded
C6_Witness ==
  /\ FellBack
  /\ IsJWTView(ucan)
  /\ Formatter_format(ucan.model) = UTF8_decode(origin.arg)

\* the payload verifySignature hands to verifier.verify for the view held
SigningPayload ==
  UTF8_encode(formatSignPayload(ucan.model, Str(algorithm(ucan.model["s"].v).val)))

\* C7: the token issue returns for issuer k verifies under the verifier of
\* k, the payload recomputed at verification being the payload k signed.
C7_IssuedVerifies ==
  (origin.op = "issue" /\ last.op = "verifySignature" /\ last.arg = origin.by) =>
    /\ last.ok /\ last.out = TRUE
    /\ Content(SigningPayload) = Content(raw(ucan.model["s"].v).val)[1].over

\* a token issued by the RSA key has been verified by its verifier
C7_Witness ==
  /\ origin.op = "issue" /\ origin.by = "rsa"
  /\ last.op = "verifySignature" /\ last.arg = "rsa"
  /\ last.out = TRUE

\* C8: verifySignature is true exactly when the DID of the verifier is the
\* DID of the issuer and verifier.verify is true of the signing payload and
\* the signature; otherwise it is false, not an error.
C8_VerifyIffDidAndSignature ==
  last.op = "verifySignature" =>
    /\ last.ok
    /\ last.out <=> /\ did(last.arg) = DID_format(ucan.model["iss"].v)
                    /\ verify(last.arg, SigningPayload, ucan.model["s"].v)

\* a token signed by another key than its issuer's was verified by that
\* key's verifier and found wanting
C8_Witness ==
  /\ last.op = "verifySignature" /\ last.ok /\ last.out = FALSE
  /\ did(last.arg) # DID_format(ucan.model["iss"].v)
  /\ verify(last.arg, SigningPayload, ucan.model["s"].v)

\* a capability on all of my:* or as:did:* that does not grant "*"
Overreaches(capability) ==
  /\ EndsWith(capability.v["with"].v, <<"*">>)
  /\ \/ StartsWith(capability.v["with"].v, <<"m", "y", ":">>)
     \/ StartsWith(capability.v["with"].v, <<"a", "s", ":", "d", "i", "d", ":">>)
  /\ capability.v["can"] # Str(<<"*">>)

\* C9: no token that issue, parse or decode returns holds a capability
\* whose `with` is my:* or as:did:* and whose `can` is not "*".
C9_NoOverreach ==
  ucan # NoView =>
    \A n \in 1..Len(ucan.model["att"].v) : ~Overreaches(ucan.model["att"].v[n])

\* C10: isExpired is true exactly when exp is not null and exp <= now();
\* isTooEarly is true exactly when nbf is set and now() <= nbf; neither
\* throws.
C10_TimeChecks ==
  /\ last.op = "isExpired" =>
       /\ last.ok
       /\ last.out <=> /\ ucan.model["exp"] # Null
                       /\ ucan.model["exp"].v <= last.arg
  /\ last.op = "isTooEarly" =>
       /\ last.ok
       /\ last.out <=> /\ ucan.model["nbf"] # Undef
                       /\ last.arg <= ucan.model["nbf"].v

\* a token has been found expired in the very second of its expiry
C10_Witness ==
  /\ last.op = "isExpired" /\ last.out = TRUE
  /\ ucan.model["exp"] = Num(last.arg)


----------------------------------------------------------------------------
(* Properties of principals and envelopes, under Codecs *)

\* C11: for every DID string s that DID.parse accepts, DID.format of the
\* principal it returns is s.
C11_FormatOfParse ==
  (last.op = "DID.format" /\ last.of.op = "DID.parse") => last.out = last.of.arg

\* the call that made the envelope a decode, parse or fromJSON read back
Made == last.of.of

ReadBack ==
  \/ last.op = "Signature.decode" /\ last.of.op = "Signature.encode"
  \/ last.op = "Signature.parse" /\ last.of.op = "Signature.format"
  \/ last.op = "Signature.fromJSON" /\ last.of.op = "Signature.toJSON"

\* C12: decode(encode(create(c, r))) has code c and raw r for every
\* standard code c; the envelope createNamed(n, r) builds for a name n that
\* is not standard decodes, parses back from its text and reads back from
\* its JSON form with code NON_STANDARD, raw r and algorithm n.
C12_EnvelopeRoundTrip ==
  /\ (ReadBack /\ last.op = "Signature.decode" /\ Made.op = "Signature.create") =>
       /\ last.ok
       /\ Signature_code(last.out).val = Made.arg.code
       /\ Content(raw(last.out).val) = Content(Made.arg.raw)
  /\ (/\ ReadBack
      /\ Made.op = "Signature.createNamed"
      /\ nameCode(Made.arg.name) = NON_STANDARD) =>
       /\ last.ok
       /\ Signature_code(last.out).val = NON_STANDARD
       /\ Content(raw(last.out).val) = Content(Made.arg.raw)
       /\ algorithm(last.out).val = Made.arg.name

StandardCodes ==
  {ES256K, BLS12381G1, BLS12381G2, EdDSA, ES256, ES384, ES512, RS256, EIP191}

\* the envelope <code><size><raw>, nothing after it
Envelope(code, bytes) ==
  varint_encode(code) \o varint_encode(bytes.byteLength) \o Content(bytes)

\* C13: create(code, raw) throws a RangeError unless code is one of the
\* nine standard codes, NON_STANDARD not among them; createNamed(name, raw)
\* is the standard envelope with nothing after the raw signature when the
\* name is that of a standard algorithm, and else the NON_STANDARD envelope
\* with the UTF-8 of the name after it.
C13_CreateChecksCode ==
  /\ last.op = "Signature.create" =>
       /\ last.ok <=> last.arg.code \in StandardCodes
       /\ last.ok => Content(last.out) = Envelope(last.arg.code, last.arg.raw)
       /\ ~last.ok => last.out.name = "RangeError"
  /\ last.op = "Signature.createNamed" =>
       /\ last.ok
       /\ IF \E a \in Algorithms : a.name = last.arg.name
          THEN \E a \in Algorithms :
                 /\ a.name = last.arg.name
                 /\ Content(last.out) = Envelope(a.code, last.arg.raw)
          ELSE Content(last.out) =
                 Envelope(NON_STANDARD, last.arg.raw)
                   \o Content(encoder_encode(last.arg.name))

C13_Witness ==
  /\ last.op = "Signature.create"
  /\ last.arg.code = NON_STANDARD
  /\ ~last.ok
  /\ last.out.name = "RangeError"

\* C14 as stated: Signature.decode succeeds for every byte string, one
\* whose code is not recognised included; the code is checked only when
\* `algorithm` is read.
C14_DecodeLazy ==
  (last.op = "Signature.decode" /\ last.arg.t = "bytes") => last.ok

\* C14: Signature.decode reads code, algorithm and raw of the view before
\* it returns it: it throws a RangeError for bytes whose code is neither a
\* standard code nor NON_STANDARD, or that end before the raw signature
\* does, and it returns a view of the bytes given otherwise.
C14_DecodeValidates ==
  (last.op = "Signature.decode" /\ last.arg.t = "bytes") =>
    /\ last.ok =>
         /\ Signature_code(last.out).ok
         /\ Signature_code(last.out).val \in StandardCodes \cup {NON_STANDARD}
         /\ raw(last.out).ok
         /\ last.out = last.arg.v
    /\ ~last.ok =>
         /\ last.out.name = "RangeError"
         /\ \/ ~raw(last.arg.v).ok
            \/ Signature_code(last.arg.v).val \notin StandardCodes \cup {NON_STANDARD}

C14_Witness ==
  /\ last.op = "Signature.decode"
  /\ last.arg.t = "bytes"
  /\ raw(last.arg.v).ok
  /\ Signature_code(last.arg.v).val = NON_STANDARD + 1
  /\ ~last.ok

\* C15: signature.verify(signer, payload) never throws: it answers
\* { ok: {} } exactly when signer.verify answers true, and { error } when
\* signer.verify answers anything else or throws.
C15_VerifyNeverThrows ==
  last.op = "verify" =>
    /\ last.ok
    /\ IF Verifier_verify(last.arg.signer, last.arg.payload, last.of.out)
            = Ok(Bool(TRUE))
       THEN last.out = [ok |-> <<>>]
       ELSE DOMAIN last.out = {"error"}

C15_Witness ==
  /\ last.op = "verify"
  /\ last.arg.signer = "truthy"
  /\ DOMAIN last.out = {"error"}

\* C30: the DID string of a decoded principal that is no key, and the
\* algorithm name of a decoded NON_STANDARD signature, depend only on the
\* bytes inside the window of the byte view given: another view of the same
\* content yields the same string, whatever its buffer holds around it.
C30_WindowOnly ==
  /\ (last.op = "DID.format" /\ last.of.op = "DID.decode") =>
       \A other \in Principals :
         Content(other) = Content(last.arg) => DID_format(other) = last.out
  /\ (last.op = "algorithm" /\ last.of.op = "Signature.decode" /\ last.ok) =>
       \A other \in Envelopes :
         (other.t = "bytes" /\ Content(other.v) = Content(last.arg)) =>
           algorithm(Signature_view(other.v)) = Ok(last.out)

----------------------------------------------------------------------------
(* Properties of errors and of what the codecs write, under Spec *)

\* C16: decode(bytes) throws only when the DAG-CBOR path and the JWT path
\* both throw, and what it throws is what the JWT path threw, never what
\* the DAG-CBOR path threw.
C16_DecodeThrowsOfJWT ==
  last.op = "decode" =>
    /\ ~last.ok <=> (/\ ~CBOR_decode(last.arg).ok
                     /\ ~Parser_parse(UTF8_decode(last.arg)).ok)
    /\ ~last.ok => last.out = Parser_parse(UTF8_decode(last.arg)).err

C16_Witness ==
  /\ last.op = "decode"
  /\ ~last.ok
  /\ last.out # CBOR_decode(last.arg).err

\* the header of a token of three segments, and its `alg`
HasHeader(jwt) == Len(jwt) = 3 /\ decodeFields(jwt[1], <<"header">>).ok
AlgOf(jwt) == Get(decodeFields(jwt[1], <<"header">>).val, "alg")
Unrecognised(alg) == alg.t # "string" \/ nameCode(alg.v) = NON_STANDARD

\* C17: parse throws a ParseError for every token whose header `alg` is not
\* the name of a signature algorithm the library knows.
C17_RejectsUnknownAlg ==
  (last.op = "parse" /\ HasHeader(last.arg) /\ Unrecognised(AlgOf(last.arg))) =>
    (~last.ok /\ last.out.name = "ParseError")

\* a token whose three segments decode: what is left to fail is the shape
\* of the header and of the payload
Decodes(jwt) ==
  /\ Len(jwt) = 3
  /\ decodeFields(jwt[1], <<"header">>).ok
  /\ decodeFields(jwt[2], <<"payload">>).ok
  /\ base64url_baseDecode(jwt[3]).ok

\* C18: every failure of shape met while a token is validated (a field of
\* the wrong type or missing, a malformed capability, a malformed DID in
\* iss or aud, an invalid version, exp or nbf that is no integer, a proof
\* that is no string) is thrown as a ParseError that names the field.
C18_ShapeFailuresAreParseErrors ==
  (last.op = "parse" /\ ~last.ok /\ Decodes(last.arg)) =>
    (last.out.name = "ParseError" /\ last.out.context # <<>>)

\* the map a DAG-CBOR block holds
MapOf(bytes) == Content(bytes)[1].cbor.v

EncodedBlock == last.op = "encode" /\ last.ok /\ ucan.code = CBOR_CODE

\* C19 as stated: the DAG-CBOR encoding of a Model has no fct when fct is
\* empty, no nnc when nnc is null or the empty string, no nbf when nbf is
\* null or zero, and always has exp.
C19_OmitsEmptyOptionals ==
  EncodedBlock =>
    /\ Len(ucan.model["fct"].v) = 0 => "fct" \notin DOMAIN MapOf(last.out)
    /\ ucan.model["nnc"] \in {Undef, Null, Str(<<>>)} => "nnc" \notin DOMAIN MapOf(last.out)
    /\ ucan.model["nbf"] \in {Undef, Null, Num(0)} => "nbf" \notin DOMAIN MapOf(last.out)
    /\ "exp" \in DOMAIN MapOf(last.out)

\* C19: the DAG-CBOR encoding of a Model has fct exactly when fct is not
\* empty, nnc exactly when nnc is neither null nor undefined (the empty
\* string is written), nbf exactly when nbf is neither null, undefined nor
\* zero, and always exp, null when the token never expires.
C19_OmitsUnsetOptionals ==
  EncodedBlock =>
    /\ "fct" \in DOMAIN MapOf(last.out) <=> Len(ucan.model["fct"].v) > 0
    /\ "nnc" \in DOMAIN MapOf(last.out) <=> ucan.model["nnc"] \notin {Undef, Null}
    /\ "nbf" \in DOMAIN MapOf(last.out) <=> ucan.model["nbf"] \notin {Undef, Null, Num(0)}
    /\ "exp" \in DOMAIN MapOf(last.out)
    /\ MapOf(last.out)["exp"] = ucan.model["exp"]

C19_Witness ==
  /\ EncodedBlock
  /\ ucan.model["nnc"] = Str(<<>>)
  /\ MapOf(last.out)["nnc"] = Str(<<>>)
  /\ "nbf" \notin DOMAIN MapOf(last.out)

\* the JSON text of the payload of a token
PayloadText(jwt) == jwt[2].data[1]

Formatted == last.op = "format" /\ last.ok /\ ucan.code = CBOR_CODE

\* the keys the payload of a model has to hold
PayloadKeysOf(model) ==
  {"iss", "aud", "att", "exp", "prf"}
  \cup (IF Len(model["fct"].v) > 0 THEN {"fct"} ELSE {})
  \cup (IF Truthy(model["nnc"]) THEN {"nnc"} ELSE {})
  \cup (IF Truthy(model["nbf"]) THEN {"nbf"} ELSE {})

\* C20 as stated: the payload of the token format emits for a CBOR-view
\* lists its keys in the order iss, aud, att, exp, prf, all always there,
\* then fct only if it is not empty, nnc only if truthy, nbf only if truthy.
C20_KeysInSourceOrder ==
  Formatted =>
    PayloadText(last.out).keys =
      Listed(<<"iss", "aud", "att", "exp", "prf", "fct", "nnc", "nbf">>,
             PayloadKeysOf(ucan.model))

\* C20: the payload of the token format emits for a CBOR-view holds iss,
\* aud, att, exp and prf always (exp as the model has it, null included,
\* the proofs as strings), fct only if it is not empty, nnc only if it is
\* truthy and nbf only if it is truthy; the keys stand in the text in the
\* sorted order of DAG-JSON, att, aud, exp, fct, iss, nbf, nnc, prf, not in
\* the order encodePayload names them.
C20_KeysSorted ==
  Formatted =>
    /\ DOMAIN PayloadText(last.out).json.v = PayloadKeysOf(ucan.model)
    /\ PayloadText(last.out).keys =
         Listed(<<"att", "aud", "exp", "fct", "iss", "nbf", "nnc", "prf">>,
                PayloadKeysOf(ucan.model))
    /\ PayloadText(last.out).json.v["exp"] = ucan.model["exp"]
    /\ \A i \in 1..Len(PayloadText(last.out).json.v["prf"].v) :
         PayloadText(last.out).json.v["prf"].v[i].t = "string"

C20_Witness ==
  /\ Formatted
  /\ Truthy(ucan.model["nnc"])
  /\ Truthy(ucan.model["nbf"])
  /\ PayloadText(last.out).keys = <<"att", "aud", "exp", "iss", "nbf", "nnc", "prf">>


----------------------------------------------------------------------------
(* Properties of the tokens the library accepts, under Spec *)

Makers == {"issue", "parse", "decode"}

\* C21: every Model that parse, decode or issue returns has at least one
\* capability: a payload whose att is an empty list never becomes a Model.
C21_AttNonEmpty ==
  (last.op \in Makers /\ last.ok) => Len(last.out.model["att"].v) >= 1

\* C23: for a JWT-view kept from the token j = header.payload.signature,
\* verifySignature hands the verifier the UTF-8 bytes of header.payload as
\* they appear in j: when the signature is valid over those bytes and the
\* verifier's DID is the issuer's, it answers true.
C23_VerifiesSignedBytes ==
  ( /\ last.op = "verifySignature"
    /\ IsJWTView(ucan)
    /\ origin.op = "parse"
    /\ did(last.arg) = DID_format(ucan.model["iss"].v)
    /\ verify(last.arg, UTF8_encode(SubSeq(origin.arg, 1, 2)), ucan.model["s"].v) )
  => (last.ok /\ last.out = TRUE)

\* the proofs of the payload of a token, as its JSON lists them
ProofsOf(jwt) == Get(jwt[2].data[1].json.v, "prf")

Anchored(s) ==
  \E i \in 1..Len(s), j \in 1..Len(s) :
    /\ i + 2 < j /\ j < Len(s)
    /\ \A k \in 1..i : s[k] \in Digits
    /\ s[i + 1] = "."
    /\ \A k \in (i + 2)..(j - 1) : s[k] \in Digits
    /\ s[j] = "."
    /\ \A k \in (j + 1)..Len(s) : s[k] \in Digits

\* C28: parse and decode accept a token only if its version is, in full,
\* three dot-separated groups of decimal digits.
C28_VersionAnchored ==
  (last.op \in {"parse", "decode"} /\ last.ok) =>
    /\ last.out.model["v"].t = "string"
    /\ Anchored(last.out.model["v"].v)

\* a token is usable at a clock reading when it is neither expired nor
\* too early
Usable(view, t) == ~isExpired(view, t) /\ ~isTooEarly(view, t)

Times == 0..MaxClock

\* nbf < t < exp, with no lower bound when nbf is absent and no upper
\* bound when exp is null
Within(model, t) ==
  /\ model["nbf"] # Undef => model["nbf"].v < t
  /\ model["exp"] # Null => t < model["exp"].v

\* C29: under a clock that does not go back, the token the caller holds is
\* usable exactly at the readings t with nbf < t < exp; once expired it is
\* expired at every later reading, once not too early it is not too early
\* at any later reading; with exp <= nbf + 1 it is usable at no reading.
\* The time checks the caller makes answer as isExpired and isTooEarly do.
C29_UsableWindow ==
  ucan # NoView =>
    /\ \A t \in Times : Usable(ucan, t) <=> Within(ucan.model, t)
    /\ \A t1 \in Times, t2 \in Times :
         t1 <= t2 => /\ isExpired(ucan, t1) => isExpired(ucan, t2)
                     /\ ~isTooEarly(ucan, t1) => ~isTooEarly(ucan, t2)
    /\ ( /\ ucan.model["nbf"] # Undef /\ ucan.model["exp"] # Null
         /\ ucan.model["exp"].v <= ucan.model["nbf"].v + 1 )
       => \A t \in Times : ~Usable(ucan, t)
    /\ last.op = "isExpired" => last.out = isExpired(ucan, last.arg)
    /\ last.op = "isTooEarly" => last.out = isTooEarly(ucan, last.arg)

\* a token whose exp is the second after its nbf was found too early at
\* nbf, and is expired at the next reading
C29_Witness ==
  /\ last.op = "isTooEarly" /\ last.out = TRUE
  /\ ucan.model["nbf"] = Num(last.arg)
  /\ ucan.model["exp"] = Num(last.arg + 1)
  /\ isExpired(ucan, last.arg + 1)

----------------------------------------------------------------------------
(* Properties of the calls that wait, under Async *)

C24_ValidatesBeforeSign ==
  /\ \A call \in pending :
       call.op = "issue" =>
         /\ issueData(call.arg, call.at).ok
         /\ call.data = issueData(call.arg, call.at).val
  /\ (last.op = "issue" /\ ~last.ok) =>
       /\ ~issueData(last.arg, clock).ok
       /\ last.out = issueData(last.arg, clock).err
       /\ \A call \in pending : ~(call.op = "issue" /\ call.arg = last.arg)

\* an issue failed validation while another waits for its signer
C24_Witness ==
  /\ last.op = "issue" /\ ~last.ok
  /\ last.out.name = "ParseError"
  /\ \E call \in pending : call.op = "issue" /\ call.awaits = "sign"

\* the lifetime issue gives a token that has no explicit expiration
Lifetime(options) == Default(options.lifetimeInSeconds, Num(DefaultLifetime)).v

\* C25 as stated: a token issued without an explicit expiration expires
\* lifetimeInSeconds after the clock reading of the call, and is not yet
\* expired when issue returns.
C25_UnexpiredOnReturn ==
  (last.op = "issue" /\ last.ok /\ last.arg.expiration = Undef) =>
    /\ last.out.model["exp"] = Num(last.at + Lifetime(last.arg))
    /\ ~isExpired(last.out, last.to)

\* C25: a token issued without an explicit expiration expires
\* lifetimeInSeconds (30 by default) after the clock reading of the call;
\* when issue returns it is expired exactly when the signer took
\* lifetimeInSeconds or more to answer.  With neither an expiration nor a
\* lifetime, the token expires 30 seconds after the call.
C25_ExpiresLifetimeAfterCall ==
  /\ (last.op = "issue" /\ last.ok /\ last.arg.expiration = Undef) =>
       /\ last.out.model["exp"] = Num(last.at + Lifetime(last.arg))
       /\ isExpired(last.out, last.to) <=> last.to - last.at >= Lifetime(last.arg)
  /\ \A t \in 0..MaxClock :
       /\ Issued[IssueDefaults][t].ok
       /\ Issued[IssueDefaults][t].val.model["exp"] = Num(t + DefaultLifetime)

\* issue returned a token of one second a second after it was called
C25_Witness ==
  /\ last.op = "issue" /\ last.ok
  /\ last.arg.lifetimeInSeconds = Num(1)
  /\ last.to = last.at + 1
  /\ isExpired(last.out, last.to)

\* C26 as stated: only issue and verifySignature ever wait.
C26_OnlyIssueAndVerifyWait ==
  \A call \in pending : call.op \in {"issue", "verifySignature"}

\* C26: the operations that can wait are issue, for signer.sign,
\* verifySignature, for verifier.verify, write, for hasher.digest, and
\* link, for the write it calls; every other operation returns at once.
C26_SuspensionPoints ==
  \A call \in pending :
    <<call.op, call.awaits>> \in
      { <<"issue", "sign">>, <<"verifySignature", "verify">>,
        <<"write", "digest">>, <<"link", "write">> }

\* a write waits for its digest while an issue waits for its signer
C26_Witness ==
  \E one \in pending, other \in pending :
    /\ one.op = "write" /\ one.awaits = "digest"
    /\ other.op = "issue" /\ other.awaits = "sign"

=============================================================================
